---- MODULE Spec2Model ----
(***************************************************************************)
(* Lig2Boltz (src/lig2boltz/main.py): class YamlGenerator and the batch    *)
(* run generateBoltzInputs.                                                *)
(*                                                                         *)
(* Text is modelled character by character: a Python str is a sequence of  *)
(* one-character strings.  A parsed document is a tree of tagged records   *)
(* (dict / list / str / int / float / bool / none); a dict keeps its items *)
(* in insertion order, as a Python dict does.                              *)
(***************************************************************************)
EXTENDS Integers, Sequences, FiniteSets, TLC

(***************************************************************************)
(* Characters and Python str methods                                       *)
(***************************************************************************)
DigitChars == <<"0", "1", "2", "3", "4", "5", "6", "7", "8", "9">>

IsDigit(c) == \E d \in 1..Len(DigitChars) : DigitChars[d] = c

DigitVal(c) == (CHOOSE d \in 1..Len(DigitChars) : DigitChars[d] = c) - 1

WhiteSpace == {" ", "\t", "\r"}

RECURSIVE lstrip(_)
lstrip(s) == IF s /= <<>> /\ Head(s) \in WhiteSpace THEN lstrip(Tail(s)) ELSE s

RECURSIVE rstrip(_)
rstrip(s) ==
    IF s /= <<>> /\ s[Len(s)] \in WhiteSpace
    THEN rstrip(SubSeq(s, 1, Len(s) - 1)) ELSE s

strip(s) == rstrip(lstrip(s))

Contains(s, c) == \E i \in 1..Len(s) : s[i] = c

\* index of the first occurrence of c in s at or after i, Len(s) + 1 if none
RECURSIVE IndexFrom(_, _, _)
IndexFrom(s, c, i) ==
    IF i > Len(s) \/ s[i] = c THEN i ELSE IndexFrom(s, c, i + 1)

\* s.split(c): the pieces between the occurrences of c
RECURSIVE split(_, _)
split(s, c) ==
    LET j == IndexFrom(s, c, 1)
    IN  IF j > Len(s) THEN <<s>>
        ELSE <<SubSeq(s, 1, j - 1)>> \o split(SubSeq(s, j + 1, Len(s)), c)

startswith(s, p) == Len(p) <= Len(s) /\ SubSeq(s, 1, Len(p)) = p

StartsWithAt(s, i, p) ==
    i + Len(p) - 1 <= Len(s) /\ SubSeq(s, i, i + Len(p) - 1) = p

RECURSIVE Spaces(_)
Spaces(n) == IF n = 0 THEN <<>> ELSE <<" ">> \o Spaces(n - 1)

\* int(s) of a string of decimal digits (leading zeros allowed)
RECURSIVE int(_)
int(ds) ==
    IF ds = <<>> THEN 0
    ELSE 10 * int(SubSeq(ds, 1, Len(ds) - 1)) + DigitVal(ds[Len(ds)])

\* str(n) of a non-negative int
RECURSIVE IntToStr(_)
IntToStr(n) ==
    IF n < 10 THEN <<DigitChars[n + 1]>>
    ELSE IntToStr(n \div 10) \o <<DigitChars[(n % 10) + 1]>>

(***************************************************************************)
(* The document tree                                                       *)
(***************************************************************************)
PyStr(s) == [t |-> "str", s |-> s]
PyInt(n) == [t |-> "int", n |-> n]
PyBool(b) == [t |-> "bool", b |-> b]
PyNone == [t |-> "none"]
\* a float w.f, kept as its integer part and its fraction digits without
\* trailing zeros (1.50 and 1.5 are the same float)
PyFloat(w, f) == [t |-> "float", w |-> w, f |-> f]
PyDict(items) == [t |-> "dict", items |-> items]
PyList(elems) == [t |-> "list", elems |-> elems]
Item(k, v) == [k |-> k, v |-> v]

EmptyDict == PyDict(<<>>)

Keys(d) == {d.items[i].k : i \in 1..Len(d.items)}

HasKey(d, k) == k \in Keys(d)

KeyIndex(d, k) == CHOOSE i \in 1..Len(d.items) : d.items[i].k = k

Lookup(d, k) == d.items[KeyIndex(d, k)].v

\* d[k] = v : an existing key keeps its position, a new key goes last
SetKey(d, k, v) ==
    IF HasKey(d, k)
    THEN PyDict([d.items EXCEPT ![KeyIndex(d, k)] = Item(k, v)])
    ELSE PyDict(Append(d.items, Item(k, v)))

\* the object reached from the root by following the keys of path
RECURSIVE GetAt(_, _)
GetAt(tree, path) ==
    IF path = <<>> THEN tree ELSE GetAt(Lookup(tree, Head(path)), Tail(path))

\* the root after  obj[k] = v  on the dict obj reached by path
RECURSIVE SetAt(_, _, _, _)
SetAt(tree, path, k, v) ==
    IF path = <<>> THEN SetKey(tree, k, v)
    ELSE SetKey(tree, Head(path), SetAt(Lookup(tree, Head(path)), Tail(path), k, v))

(***************************************************************************)
(* json.loads, as the parser uses it on a stripped, non-empty value text.  *)
(* The grammar covered is: integers and decimals without sign or exponent, *)
(* true / false / null, double-quoted strings without escapes, and flat    *)
(* arrays of those.  Every other text of the model's inputs is no JSON     *)
(* document, and json.loads raises on it (result Fail).                    *)
(***************************************************************************)
Fail == [t |-> "fail"]

AllDigits(s) == s /= <<>> /\ \A i \in 1..Len(s) : IsDigit(s[i])

\* JSON "int" production: no leading zero unless the number is 0
IsJsonInt(s) == AllDigits(s) /\ (Len(s) = 1 \/ s[1] /= "0")

RECURSIVE TrimZeros(_)
TrimZeros(f) ==
    IF f /= <<>> /\ f[Len(f)] = "0" THEN TrimZeros(SubSeq(f, 1, Len(f) - 1)) ELSE f

IsJsonFloat(s) ==
    LET dot == IndexFrom(s, ".", 1)
    IN  /\ dot <= Len(s)
        /\ IsJsonInt(SubSeq(s, 1, dot - 1))
        /\ AllDigits(SubSeq(s, dot + 1, Len(s)))

IsJsonString(s) ==
    /\ Len(s) >= 2
    /\ s[1] = "\"" /\ s[Len(s)] = "\""
    /\ \A i \in 2..(Len(s) - 1) : s[i] \notin {"\"", "\\", "\n", "\t", "\r"}

JsonScalar(s) ==
    IF IsJsonInt(s) THEN PyInt(int(s))
    ELSE IF IsJsonFloat(s)
         THEN LET dot == IndexFrom(s, ".", 1)
              IN  PyFloat(int(SubSeq(s, 1, dot - 1)),
                          TrimZeros(SubSeq(s, dot + 1, Len(s))))
    ELSE IF s = <<"t", "r", "u", "e">> THEN PyBool(TRUE)
    ELSE IF s = <<"f", "a", "l", "s", "e">> THEN PyBool(FALSE)
    ELSE IF s = <<"n", "u", "l", "l">> THEN PyNone
    ELSE IF IsJsonString(s) THEN PyStr(SubSeq(s, 2, Len(s) - 1))
    ELSE Fail

\* end of the array element that starts at i: a string runs to its closing
\* quote, anything else to the next comma
ElemEnd(s, i) ==
    IF s[i] = "\""
    THEN LET q == IndexFrom(s, "\"", i + 1) IN IndexFrom(s, ",", q)
    ELSE IndexFrom(s, ",", i)

\* the elements of the array body s (the text between [ and ]), from i on
RECURSIVE JsonElems(_, _)
JsonElems(s, i) ==
    LET b == i + (Len(SubSeq(s, i, Len(s))) - Len(lstrip(SubSeq(s, i, Len(s)))))
    IN  IF b > Len(s) THEN Fail
        ELSE LET e == ElemEnd(s, b)
                 v == JsonScalar(strip(SubSeq(s, b, e - 1)))
             IN  IF v = Fail THEN Fail
                 ELSE IF e > Len(s) THEN PyList(<<v>>)
                 ELSE LET rest == JsonElems(s, e + 1)
                      IN  IF rest = Fail THEN Fail
                          ELSE PyList(<<v>> \o rest.elems)

JsonLoads(s) ==
    IF s /= <<>> /\ s[1] = "[" /\ s[Len(s)] = "]" /\ Len(s) >= 2
    THEN IF strip(SubSeq(s, 2, Len(s) - 1)) = <<>> THEN PyList(<<>>)
         ELSE JsonElems(SubSeq(s, 2, Len(s) - 1), 1)
    ELSE JsonScalar(s)

(***************************************************************************)
(* YamlGenerator._yaml_to_dict                                             *)
(*                                                                         *)
(* current_dict and the entries of parent_dicts are references into the    *)
(* tree under construction.  Each is kept as the path of keys that leads   *)
(* to it from data: the parser only ever stores into current_dict, and the *)
(* entries of parent_dicts are ancestors of current_dict, so no stored     *)
(* reference is ever cut off from the root.                                *)
(***************************************************************************)
ParserInit ==
    [data |-> EmptyDict, current_indent |-> 0, current_dict |-> <<>>,
     parent_dicts |-> <<>>, last_key |-> <<>>, last_key_bound |-> FALSE,
     exc |-> "none"]

Raise(st, e) == [st EXCEPT !.exc = e]

\* while indent < current_indent and parent_dicts: pop, and set
\* current_indent to the indentation of the line
RECURSIVE Dedent(_, _)
Dedent(st, indent) ==
    IF indent < st.current_indent /\ st.parent_dicts /= <<>>
    THEN Dedent([st EXCEPT
                    !.current_dict = st.parent_dicts[Len(st.parent_dicts)],
                    !.parent_dicts = SubSeq(@, 1, Len(@) - 1),
                    !.current_indent = indent],
                indent)
    ELSE st

\* the "if indent > current_indent ... elif indent < current_indent" block
IndentChange(st, indent) ==
    IF indent > st.current_indent
    THEN LET cur == GetAt(st.data, st.current_dict)
         IN  IF ~st.last_key_bound THEN Raise(st, "UnboundLocalError")
             ELSE IF cur.t /= "dict" THEN Raise(st, "TypeError")
             ELSE IF ~HasKey(cur, st.last_key) THEN Raise(st, "KeyError")
             ELSE [st EXCEPT !.parent_dicts = Append(@, st.current_dict),
                             !.current_dict = Append(@, st.last_key),
                             !.current_indent = indent]
    ELSE IF indent < st.current_indent THEN Dedent(st, indent)
    ELSE st

\* the "if ':' in line" block
KeyValue(st, line) ==
    IF ~Contains(line, ":") THEN st
    ELSE LET c == IndexFrom(line, ":", 1)
             key == strip(SubSeq(line, 1, c - 1))
             value == strip(SubSeq(line, c + 1, Len(line)))
             cur == GetAt(st.data, st.current_dict)
             loaded == JsonLoads(value)
         IN  IF cur.t /= "dict" THEN Raise(st, "TypeError")
             ELSE IF value = <<>>
             THEN [st EXCEPT !.data = SetAt(@, st.current_dict, key, EmptyDict),
                             !.last_key = key, !.last_key_bound = TRUE]
             ELSE [st EXCEPT !.data =
                     SetAt(@, st.current_dict, key,
                           IF loaded = Fail THEN PyStr(value) ELSE loaded)]

\* one iteration of "for line in lines"
ParseLine(st, line) ==
    IF st.exc /= "none" THEN st
    ELSE IF strip(line) = <<>> \/ Head(strip(line)) = "#" THEN st
    ELSE LET st1 == IndentChange(st, Len(line) - Len(lstrip(line)))
         IN  IF st1.exc /= "none" THEN st1 ELSE KeyValue(st1, line)

RECURSIVE ParseLines(_, _)
ParseLines(st, lines) ==
    IF lines = <<>> THEN st
    ELSE ParseLines(ParseLine(st, Head(lines)), Tail(lines))

\* the returned dict, or Fail when the function raises
_yaml_to_dict(yaml_str) ==
    LET st == ParseLines(ParserInit, split(yaml_str, "\n"))
    IN  IF st.exc /= "none" THEN Fail ELSE st.data

(***************************************************************************)
(* YamlGenerator._loadTemplate: the parsed file, or Fail when the parser   *)
(* raised (the exception is re-raised as ValueError)                       *)
(***************************************************************************)
_loadTemplate(content) == _yaml_to_dict(content)

(***************************************************************************)
(* YamlGenerator._dict_to_yaml                                             *)
(***************************************************************************)
\* f"{value}" of a scalar
Format(v) ==
    CASE v.t = "str" -> v.s
      [] v.t = "int" -> IntToStr(v.n)
      [] v.t = "bool" -> IF v.b THEN <<"T", "r", "u", "e">>
                         ELSE <<"F", "a", "l", "s", "e">>
      [] v.t = "none" -> <<"N", "o", "n", "e">>
      [] v.t = "float" -> IntToStr(v.w) \o <<".">> \o (IF v.f = <<>> THEN <<"0">> ELSE v.f)

RECURSIVE Concat(_)
Concat(ss) == IF ss = <<>> THEN <<>> ELSE Head(ss) \o Concat(Tail(ss))

\* the text put after "key: " for a str value
QuoteStr(value, indent_str) ==
    IF Contains(value, "\n")
    THEN LET parts == split(value, "\n")
         IN  <<"|", "-", "\n">> \o
             Concat([i \in 1..Len(parts) |-> indent_str \o parts[i]])
    ELSE IF Contains(value, ":")
            /\ ~\E p \in {<<"{">>, <<"[">>, <<"\"">>, <<"'">>} : startswith(value, p)
    THEN <<"\"">> \o value \o <<"\"">>
    ELSE value

RECURSIVE _dict_to_yaml(_, _)
RECURSIVE ListItems(_, _)
RECURSIVE DictItems(_, _)

\* the "for item in value" loop of the list branch
ListItems(elems, indent) ==
    IF elems = <<>> THEN <<>>
    ELSE LET item == Head(elems)
             prefix == Spaces(indent)
         IN  (IF item.t = "dict"
              THEN prefix \o <<" ", " ", "-", " ", "\n">>
                   \o _dict_to_yaml(item, indent + 4)
              ELSE prefix \o <<" ", " ", "-", " ">> \o Format(item) \o <<"\n">>)
             \o ListItems(Tail(elems), indent)

\* the "for key, value in data.items()" loop
DictItems(items, indent) ==
    IF items = <<>> THEN <<>>
    ELSE LET key == Head(items).k
             value == Head(items).v
             prefix == Spaces(indent)
             indent_str == Spaces(indent + 2)
         IN  (IF value.t = "dict"
              THEN prefix \o key \o <<":", "\n">> \o _dict_to_yaml(value, indent + 2)
              ELSE IF value.t = "list"
              THEN prefix \o key \o <<":", "\n">> \o ListItems(value.elems, indent)
              ELSE prefix \o key \o <<":", " ">>
                   \o (IF value.t = "str" THEN QuoteStr(value.s, indent_str)
                       ELSE Format(value))
                   \o <<"\n">>)
             \o DictItems(Tail(items), indent)

_dict_to_yaml(data, indent) == DictItems(data.items, indent)

(***************************************************************************)
(* MARKER_PATTERN = re.compile(r'<<VARIANT(\d+)>>')                        *)
(***************************************************************************)
MarkerOpen == <<"<", "<", "V", "A", "R", "I", "A", "N", "T">>

MarkerClose == <<">", ">">>

\* first index at or after i that holds no digit
RECURSIVE DigitsEnd(_, _)
DigitsEnd(s, i) == IF i <= Len(s) /\ IsDigit(s[i]) THEN DigitsEnd(s, i + 1) ELSE i

\* index of the last character of the match that starts at i, 0 if the
\* pattern does not match there (\d+ is greedy and the next character of
\* the pattern is no digit, so the match at a position is unique)
MatchEnd(s, i) ==
    LET d == i + Len(MarkerOpen)
        e == DigitsEnd(s, d)
    IN  IF StartsWithAt(s, i, MarkerOpen) /\ e > d /\ StartsWithAt(s, e, MarkerClose)
        THEN e + Len(MarkerClose) - 1
        ELSE 0

\* match.group(1) of the match at i..e
Group1(s, i, e) == SubSeq(s, i + Len(MarkerOpen), e - Len(MarkerClose))

\* MARKER_PATTERN.findall(s), scanning from i
RECURSIVE FindAllFrom(_, _)
FindAllFrom(s, i) ==
    IF i > Len(s) THEN <<>>
    ELSE LET e == MatchEnd(s, i)
         IN  IF e = 0 THEN FindAllFrom(s, i + 1)
             ELSE <<Group1(s, i, e)>> \o FindAllFrom(s, e + 1)

findall(s) == FindAllFrom(s, 1)

Range(f) == {f[i] : i \in DOMAIN f}

(***************************************************************************)
(* YamlGenerator._replaceMarkersInString                                   *)
(***************************************************************************)
\* the callback without the "- 1": marker n takes values[n]
replaceMatchOffByOne(group1, group0, values) ==
    LET variantIndex == int(group1)
    IN  IF 0 <= variantIndex /\ variantIndex < Len(values)
        THEN values[variantIndex + 1]
        ELSE group0

\* the callback without the "0 <=": marker 0 takes values[-1], the last value
replaceMatchNoLowerBound(group1, group0, values) ==
    LET variantIndex == int(group1) - 1
    IN  IF variantIndex < Len(values)
        THEN (IF variantIndex < 0 THEN values[Len(values)]
              ELSE values[variantIndex + 1])
        ELSE group0

\* the callback: group1 is match.group(1), group0 is match.group(0)
replaceMatch(group1, group0, values) ==
    LET variantIndex == int(group1) - 1
    IN  IF 0 <= variantIndex /\ variantIndex < Len(values)
        THEN values[variantIndex + 1]
        ELSE group0

\* MARKER_PATTERN.sub(replaceMatch, s), scanning from i
RECURSIVE SubFrom(_, _, _)
SubFrom(s, i, values) ==
    IF i > Len(s) THEN <<>>
    ELSE LET e == MatchEnd(s, i)
         IN  IF e = 0 THEN <<s[i]>> \o SubFrom(s, i + 1, values)
             ELSE replaceMatch(Group1(s, i, e), SubSeq(s, i, e), values)
                  \o SubFrom(s, e + 1, values)

_replaceMarkersInString(s, values) == SubFrom(s, 1, values)

(***************************************************************************)
(* YamlGenerator._extractMarkers                                           *)
(***************************************************************************)
\* the strings findMarkers adds to the set markers
RECURSIVE findMarkers(_)
findMarkers(data) ==
    IF data.t = "dict"
    THEN UNION {(IF data.items[i].v.t = "str"
                 THEN Range(findall(data.items[i].v.s)) ELSE {})
                \cup findMarkers(data.items[i].v) : i \in 1..Len(data.items)}
    ELSE IF data.t = "list"
    THEN UNION {findMarkers(data.elems[i]) : i \in 1..Len(data.elems)}
    ELSE {}

\* the lists sorted(markers, key=int) can return: equal keys keep the
\* iteration order of the set, which is any order
SortedByInt(markers) ==
    {m \in [1..Cardinality(markers) -> markers] :
        /\ Range(m) = markers
        /\ \A i, j \in DOMAIN m : i < j => int(m[i]) <= int(m[j])}

\* the lists _extractMarkers can return for the template
_extractMarkers(tmpl) == SortedByInt(findMarkers(tmpl))

(***************************************************************************)
(* Objects.  The template and its per-record copies are mutable dicts and  *)
(* lists: heap is the sequence of the dict and list objects allocated so   *)
(* far, and a dict or list held in another one is a reference to its       *)
(* object.  Scalars are immutable and are held by value.                   *)
(***************************************************************************)
Ref(id) == [t |-> "ref", id |-> id]

Alloc(h, node) == [h |-> Append(h, node), v |-> Ref(Len(h) + 1)]

Children(node) ==
    IF node.t = "dict" THEN [i \in 1..Len(node.items) |-> node.items[i].v]
    ELSE node.elems

WithChildren(node, vs) ==
    IF node.t = "dict"
    THEN PyDict([i \in 1..Len(node.items) |-> Item(node.items[i].k, vs[i])])
    ELSE PyList(vs)

\* the objects of a tree returned by the parser
RECURSIVE Store(_, _)
RECURSIVE StoreAll(_, _)
StoreAll(h, vs) ==
    IF vs = <<>> THEN [h |-> h, vs |-> <<>>]
    ELSE LET first == Store(h, Head(vs))
             rest == StoreAll(first.h, Tail(vs))
         IN  [h |-> rest.h, vs |-> <<first.v>> \o rest.vs]

Store(h, tree) ==
    IF tree.t \in {"dict", "list"}
    THEN LET r == StoreAll(h, Children(tree))
         IN  Alloc(r.h, WithChildren(tree, r.vs))
    ELSE [h |-> h, v |-> tree]

\* the tree an object stands for
RECURSIVE Load(_, _)
Load(h, v) ==
    IF v.t = "ref"
    THEN LET node == h[v.id]
         IN  WithChildren(node, [i \in 1..Len(Children(node)) |->
                                    Load(h, Children(node)[i])])
    ELSE v

(***************************************************************************)
(* YamlGenerator._deepCopyDict                                             *)
(***************************************************************************)
\* dict(original): a new top-level object that shares the nested ones
ShallowCopyDict(h, original) ==
    IF original.t = "ref" THEN Alloc(h, h[original.id])
    ELSE [h |-> h, v |-> original]

\* no copy at all: the caller works on the object it passed
NoCopyDict(h, original) == [h |-> h, v |-> original]

RECURSIVE _deepCopyDict(_, _)
RECURSIVE CopyAll(_, _)
CopyAll(h, vs) ==
    IF vs = <<>> THEN [h |-> h, vs |-> <<>>]
    ELSE LET first == _deepCopyDict(h, Head(vs))
             rest == CopyAll(first.h, Tail(vs))
         IN  [h |-> rest.h, vs |-> <<first.v>> \o rest.vs]

_deepCopyDict(h, original) ==
    IF original.t = "ref"
    THEN LET r == CopyAll(h, Children(h[original.id]))
         IN  Alloc(r.h, WithChildren(h[original.id], r.vs))
    ELSE [h |-> h, v |-> original]

(***************************************************************************)
(* YamlGenerator._replaceMarkersInDict                                     *)
(***************************************************************************)
SetChild(node, i, v) ==
    IF node.t = "dict" THEN PyDict([node.items EXCEPT ![i] = Item(@.k, v)])
    ELSE PyList([node.elems EXCEPT ![i] = v])

RECURSIVE _replaceMarkersInDict(_, _, _)
RECURSIVE ReplaceEach(_, _, _, _)
\* the loop over the items (elements) of object id, from the i-th on
ReplaceEach(h, id, i, values) ==
    IF i > Len(Children(h[id])) THEN h
    ELSE LET value == Children(h[id])[i]
         IN  ReplaceEach(
                 IF value.t = "str"
                 THEN [h EXCEPT ![id] =
                         SetChild(@, i, PyStr(_replaceMarkersInString(value.s, values)))]
                 ELSE _replaceMarkersInDict(h, value, values),
                 id, i + 1, values)

\* the heap after the call; targetDict is mutated in place
_replaceMarkersInDict(h, targetDict, values) ==
    IF targetDict.t = "ref" THEN ReplaceEach(h, targetDict.id, 1, values) ELSE h

(***************************************************************************)
(* Inputs of a run: the template file and the input file                   *)
(***************************************************************************)
\* most records of one input file
MaxRecords == 2

\* most fields of one csv row
MaxWidth == 2

Marker(digits) == MarkerOpen \o digits \o MarkerClose

M0 == Marker(<<"0">>)
M1 == Marker(<<"1">>)
M2 == Marker(<<"2">>)
M3 == Marker(<<"3">>)

Quoted(s) == <<"\"">> \o s \o <<"\"">>

\* the line "key: value" (or "key:") at an indentation
KV(indent, key, value) ==
    Spaces(indent) \o key \o <<":">>
    \o (IF value = <<>> THEN <<>> ELSE <<" ">> \o value)

RECURSIVE JoinLines(_)
JoinLines(ls) ==
    IF Len(ls) = 1 THEN ls[1] ELSE ls[1] \o <<"\n">> \o JoinLines(Tail(ls))

\* strings with markers: one marker; several and repeated markers; index 0
SlotA == {M1, <<"x">> \o M1 \o <<"y">> \o M2 \o M1, M0 \o M1}

\* a leading zero; markers that only the value put in completes
SlotMore ==
    {Marker(<<"0", "1">>),
     MarkerOpen \o M1 \o MarkerClose,
     MarkerOpen \o M1 \o <<"2">> \o MarkerClose,
     <<"<", "<">> \o M1 \o <<"A", "R", "I", "A", "N", "T", "1", ">", ">">>}

SlotB == {M2, <<"x">>}

Flat(s1, s2) == JoinLines(<<KV(0, <<"a">>, s1), KV(0, <<"b">>, s2)>>)

WithList(s1, s2) ==
    JoinLines(<<KV(0, <<"a">>, <<"[">> \o Quoted(s1) \o <<",", " ", "1", "]">>),
                KV(0, <<"b">>, s2)>>)

Deep(s1, s2) ==
    JoinLines(<<KV(0, <<"a">>, <<>>), KV(2, <<"b">>, <<>>), KV(4, <<"c">>, s1),
                KV(2, <<"d">>, <<"t", "r", "u", "e">>), KV(0, <<"e">>, s2)>>)

TemplateTexts ==
    {Flat(s1, s2) : s1 \in SlotA \cup SlotMore, s2 \in SlotB}
    \cup {WithList(s1, s2) : s1 \in SlotA, s2 \in SlotB}
    \cup {Deep(s1, s2) : s1 \in SlotA, s2 \in SlotB}
    \cup {KV(0, <<"a">>, <<"x">>), KV(2, <<"a">>, M1),
          Flat(M1, M2 \o <<":">> \o M3)}

\* lines of a .txt input file (the newline that ends a line is whitespace
\* that strip() removes, and is left out)
TxtLines == {<<" ", "C", " ">>, <<" ">>, <<"1">>, M1}

\* rows of a .csv input file, as csv.reader yields them
CsvRowPool ==
    {<<<<"C">>>>, <<<<" ">>>>, <<<<"V">>>>,
     <<<<"C">>, <<"B">>>>, <<<<>>, <<"C">>>>,
     <<<<"V">>, <<"A">>, <<"C">>>>}

CsvRows == {r \in CsvRowPool : Len(r) <= MaxWidth}

Batches(S) == UNION {[1..n -> S] : n \in 0..MaxRecords}

(***************************************************************************)
(* State                                                                   *)
(***************************************************************************)
VARIABLES
    text,           \* content of the template file
    inputExt,       \* extension of the input file: "txt" or "csv"
    inputContent,   \* its lines (txt) or rows (csv)
    heap,           \* the dict and list objects
    template,       \* self.template
    markers,        \* self.markers
    inputData,      \* what readInputFile returned
    fileType,
    pc,             \* position of the run
    i,              \* loop index of generateYamlFiles
    newTemplate,
    success_count,
    files,          \* the output directory: file number |-> content written
    exc,            \* the exception the run ended with, "none" if none
    result,         \* value returned by generateYamlFiles
    yaml_content,   \* text returned by _dict_to_yaml
    reparsed        \* tree parsed back from yaml_content

vars ==
    <<text, inputExt, inputContent, heap, template, markers, inputData,
      fileType, pc, i, newTemplate, success_count, files, exc, result,
      yaml_content, reparsed>>

NoFiles == [n \in {} |-> <<>>]

Idle ==
    /\ heap = <<>>
    /\ template = PyNone
    /\ markers = <<>>
    /\ inputData = <<>>
    /\ fileType = "none"
    /\ pc = "init"
    /\ i = 0
    /\ newTemplate = PyNone
    /\ success_count = 0
    /\ files = NoFiles
    /\ exc = "none"
    /\ result = -1
    /\ yaml_content = <<>>
    /\ reparsed = PyNone

Init ==
    /\ text \in TemplateTexts
    /\ \/ inputExt = "txt" /\ inputContent \in Batches(TxtLines)
       \/ inputExt = "csv" /\ inputContent \in Batches(CsvRows)
    /\ Idle

(***************************************************************************)
(* YamlGenerator.__init__ : _loadTemplate and _extractMarkers.  An         *)
(* exception of _yaml_to_dict is re-raised as ValueError, passes through   *)
(* generateBoltzInputs and ends the run.                                   *)
(***************************************************************************)
Construct ==
    /\ pc = "init"
    /\ LET tree == _loadTemplate(text)
           st == Store(heap, tree)
       IN  IF tree = Fail
           THEN /\ pc' = "failed"
                /\ exc' = "ValueError"
                /\ UNCHANGED <<heap, template, markers>>
           ELSE /\ heap' = st.h
                /\ template' = st.v
                /\ markers' \in _extractMarkers(Load(st.h, st.v))
                /\ pc' = "constructed"
                /\ exc' = exc
    /\ UNCHANGED <<text, inputExt, inputContent, inputData, fileType, i,
                   newTemplate, success_count, files, result, yaml_content,
                   reparsed>>

(***************************************************************************)
(* YamlGenerator.readInputFile                                             *)
(***************************************************************************)
NonBlankLine(line) == strip(line) /= <<>>

NonBlankRow(row) == \E f \in 1..Len(row) : strip(row[f]) /= <<>>

\* the list inputData built from the file
ReadRecords(ext, content) ==
    IF ext = "txt"
    THEN LET kept == SelectSeq(content, NonBlankLine)
         IN  [n \in 1..Len(kept) |-> strip(kept[n])]
    ELSE SelectSeq(content, NonBlankRow)

readInputFile ==
    /\ pc = "constructed"
    /\ LET data == ReadRecords(inputExt, inputContent)
       IN  IF data = <<>>
           THEN /\ pc' = "failed"
                /\ exc' = "ValueError"
                /\ UNCHANGED <<inputData, fileType>>
           ELSE /\ inputData' = data
                /\ fileType' = inputExt
                /\ pc' = "read"
                /\ exc' = exc
    /\ UNCHANGED <<text, inputExt, inputContent, heap, template, markers, i,
                   newTemplate, success_count, files, result, yaml_content,
                   reparsed>>

(***************************************************************************)
(* YamlGenerator.generateYamlFiles                                         *)
(***************************************************************************)
Max(S) == CHOOSE m \in S : \A n \in S : n <= m

requiredMarkers(type, data) ==
    IF type = "txt" THEN 1 ELSE Max({Len(data[n]) : n \in 1..Len(data)})

\* a check that counts the markers instead of reading the highest one
TooFewByCount(ms, required) == Len(ms) < required

\* int(self.markers[-1]) < requiredMarkers
TooFewMarkers(ms, required) == int(ms[Len(ms)]) < required

\* the checks before the loop
GenerateStart ==
    /\ pc = "read"
    /\ IF markers = <<>> \/ TooFewMarkers(markers, requiredMarkers(fileType, inputData))
       THEN /\ pc' = "failed"
            /\ exc' = "ValueError"
            /\ UNCHANGED <<i, success_count>>
       ELSE /\ pc' = "loop"
            /\ i' = 0
            /\ success_count' = 0
            /\ exc' = exc
    /\ UNCHANGED <<text, inputExt, inputContent, heap, template, markers,
                   inputData, fileType, newTemplate, files, result,
                   yaml_content, reparsed>>

\* newTemplate = self._deepCopyDict(self.template)
CopyTemplate ==
    /\ pc = "loop"
    /\ i < Len(inputData)
    /\ LET c == _deepCopyDict(heap, template)
       IN  /\ heap' = c.h
           /\ newTemplate' = c.v
    /\ pc' = "replace"
    /\ UNCHANGED <<text, inputExt, inputContent, template, markers, inputData,
                   fileType, i, success_count, files, exc, result,
                   yaml_content, reparsed>>

\* replacements = data if fileType == 'csv' else [data]
replacements(type, data) == IF type = "csv" THEN data ELSE <<data>>

\* self._replaceMarkersInDict(newTemplate, replacements)
ReplaceMarkers ==
    /\ pc = "replace"
    /\ heap' = _replaceMarkersInDict(heap, newTemplate,
                                     replacements(fileType, inputData[i + 1]))
    /\ pc' = "write"
    /\ UNCHANGED <<text, inputExt, inputContent, template, markers, inputData,
                   fileType, i, newTemplate, success_count, files, exc, result,
                   yaml_content, reparsed>>

\* the document is serialized and written to <i + 1>.yaml
WriteFile ==
    /\ pc = "write"
    /\ yaml_content' = _dict_to_yaml(Load(heap, newTemplate), 0)
    /\ files' = ((i + 1) :> yaml_content') @@ files
    /\ success_count' = success_count + 1
    /\ i' = i + 1
    /\ pc' = "loop"
    /\ UNCHANGED <<text, inputExt, inputContent, heap, template, markers,
                   inputData, fileType, newTemplate, exc, result, reparsed>>

\* open() or write() raises (the directory is gone or read-only, the disk is
\* full).  The handler calls self._log(message, file=sys.stderr); _log takes
\* one argument, message, so the call itself raises TypeError, which leaves
\* generateYamlFiles.  No document of this record counts as written.
WriteFails ==
    /\ pc = "write"
    /\ yaml_content' = _dict_to_yaml(Load(heap, newTemplate), 0)
    /\ pc' = "failed"
    /\ exc' = "TypeError"
    /\ UNCHANGED <<text, inputExt, inputContent, heap, template, markers,
                   inputData, fileType, i, newTemplate, success_count, files,
                   result, reparsed>>

\* return success_count
Return ==
    /\ pc = "loop"
    /\ i = Len(inputData)
    /\ result' = success_count
    /\ pc' = "done"
    /\ UNCHANGED <<text, inputExt, inputContent, heap, template, markers,
                   inputData, fileType, i, newTemplate, success_count, files,
                   exc, yaml_content, reparsed>>

Next ==
    \/ Construct
    \/ readInputFile
    \/ GenerateStart
    \/ CopyTemplate
    \/ ReplaceMarkers
    \/ WriteFile
    \/ WriteFails
    \/ Return

Spec == Init /\ [][Next]_vars

(***************************************************************************)
(* The parser and the serializer on their own: a template text is parsed   *)
(* as __init__ does, the tree is serialized as generateYamlFiles does      *)
(* (_dict_to_yaml(tree), indent 0) and the text is parsed again.           *)
(***************************************************************************)
\* most lines of a template text made of lines of ParseLinePool
MaxLines == 4

ParseLinePool ==
    {KV(n, k, v) : n \in {0, 2, 4}, k \in {<<"a">>, <<"b">>}, v \in {<<>>, <<"1">>}}
    \cup {<<"x">>}

\* value texts of every scalar shape
ScalarTexts ==
    {<<"1">>, <<"1", "0">>, <<"0", "1">>, <<"1", ".", "5">>, <<"2", ".", "0">>,
     <<"t", "r", "u", "e">>, <<"f", "a", "l", "s", "e">>, <<"n", "u", "l", "l">>,
     <<"x">>, <<"T", "r", "u", "e">>, <<"a", ":", "b">>, Quoted(<<"1">>),
     Quoted(<<"x">>), Quoted(<<>>), <<"#">>, M1}

\* the template texts of at most maxLines lines of the pool, and the texts
\* with one or two scalars of every shape
ParseTexts(maxLines) ==
    {JoinLines(ls) : ls \in UNION {[1..n -> ParseLinePool] : n \in 1..maxLines}}
    \cup {KV(0, <<"a">>, v) : v \in ScalarTexts}
    \cup {JoinLines(<<KV(0, <<"a">>, <<>>), KV(2, <<"b">>, v), KV(0, <<"c">>, w)>>) :
            v \in ScalarTexts, w \in ScalarTexts}
    \cup {<<>>, <<"#", "c">>, <<"\n">>}

InitParse ==
    /\ text \in ParseTexts(MaxLines)
    /\ inputExt = "txt"
    /\ inputContent = <<>>
    /\ Idle

\* yaml_content = self._dict_to_yaml(tree)
Serialize ==
    /\ pc = "constructed"
    /\ yaml_content' = _dict_to_yaml(Load(heap, template), 0)
    /\ pc' = "serialized"
    /\ UNCHANGED <<text, inputExt, inputContent, heap, template, markers,
                   inputData, fileType, i, newTemplate, success_count, files,
                   exc, result, reparsed>>

\* self._yaml_to_dict(yaml_content)
Reparse ==
    /\ pc = "serialized"
    /\ reparsed' = _yaml_to_dict(yaml_content)
    /\ pc' = "reparsed"
    /\ UNCHANGED <<text, inputExt, inputContent, heap, template, markers,
                   inputData, fileType, i, newTemplate, success_count, files,
                   exc, result, yaml_content>>

NextParse ==
    \/ Construct
    \/ Serialize
    \/ Reparse

SpecParse == InitParse /\ [][NextParse]_vars

(***************************************************************************)
(* Vocabulary of the properties                                            *)
(***************************************************************************)
\* the tree of the first parse of the template file
Tree0 == _yaml_to_dict(text)

\* the string scalars of a tree, in document order, at every depth, in
\* mappings and in sequences
RECURSIVE Strings(_)
Strings(v) ==
    IF v.t = "str" THEN <<v.s>>
    ELSE IF v.t \in {"dict", "list"}
    THEN Concat([n \in 1..Len(Children(v)) |-> Strings(Children(v)[n])])
    ELSE <<>>

\* s[a..b] is the text of a marker: <<VARIANT, one or more digits, >>
IsMarkerAt(s, a, b) ==
    /\ StartsWithAt(s, a, MarkerOpen)
    /\ b - Len(MarkerClose) >= a + Len(MarkerOpen)
    /\ b <= Len(s)
    /\ SubSeq(s, b - 1, b) = MarkerClose
    /\ \A c \in (a + Len(MarkerOpen))..(b - Len(MarkerClose)) : IsDigit(s[c])

\* the marker occurrences of s, each as <<first, last>> position
Occurrences(s) ==
    LET starts == {a \in 1..Len(s) : StartsWithAt(s, a, MarkerOpen)}
        ends == {b \in 2..Len(s) : s[b] = ">" /\ s[b - 1] = ">"}
    IN  {o \in starts \X ends : IsMarkerAt(s, o[1], o[2])}

IndexOf(s, o) == int(SubSeq(s, o[1] + Len(MarkerOpen), o[2] - Len(MarkerClose)))

MarkerIndices(s) == {IndexOf(s, o) : o \in Occurrences(s)}

\* the marker indices that occur anywhere in a tree
TreeMarkerIndices(tree) ==
    LET ss == Strings(tree)
    IN  UNION {MarkerIndices(ss[n]) : n \in 1..Len(ss)}

\* the values of the record being processed
CurrentValues == replacements(fileType, inputData[i + 1])

\* the text that stands for occurrence o of s once values are put in
Resolved(s, o, values) ==
    IF IndexOf(s, o) \in 1..Len(values) THEN values[IndexOf(s, o)]
    ELSE SubSeq(s, o[1], o[2])

RECURSIVE SumGrowth(_, _, _)
SumGrowth(s, occs, values) ==
    IF occs = {} THEN 0
    ELSE LET o == CHOOSE x \in occs : TRUE
         IN  Len(Resolved(s, o, values)) - (o[2] - o[1] + 1)
             + SumGrowth(s, occs \ {o}, values)

\* out holds, at the place of occurrence o of s, the text that stands for
\* it: the place is that of o in s, moved right by the growth of the
\* occurrences before it
HoldsAt(s, out, occs, o, values) ==
    LET from == o[1] + SumGrowth(s, {x \in occs : x[1] < o[1]}, values)
        to == from + Len(Resolved(s, o, values)) - 1
    IN  to <= Len(out) /\ SubSeq(out, from, to) = Resolved(s, o, values)

\* out holds the text of occurrence o of s unchanged, at its place
KeptAt(s, out, occs, o, values) ==
    LET from == o[1] + SumGrowth(s, {x \in occs : x[1] < o[1]}, values)
        to == from + (o[2] - o[1])
    IN  to <= Len(out) /\ SubSeq(out, from, to) = SubSeq(s, o[1], o[2])

StringResolved(s, out, values) ==
    LET occs == Occurrences(s)
    IN  /\ Len(out) = Len(s) + SumGrowth(s, occs, values)
        /\ \A o \in occs : HoldsAt(s, out, occs, o, values)

\* every occurrence of every string of the template is resolved in the
\* string at the same place of the output tree
AllResolved(tmpl, outTree, values) ==
    LET ss == Strings(tmpl)
        outs == Strings(outTree)
    IN  /\ Len(outs) = Len(ss)
        /\ \A n \in 1..Len(ss) : StringResolved(ss[n], outs[n], values)

MarkerAlphabet ==
    {"<", ">", "V", "A", "R", "I", "N", "T"} \cup Range(DigitChars)

\* no value is empty or holds a character of the marker syntax
CleanValues(values) ==
    \A n \in 1..Len(values) :
        /\ values[n] /= <<>>
        /\ \A c \in 1..Len(values[n]) : values[n][c] \notin MarkerAlphabet

\* the template's markers are 1..k and the record supplies exactly k values
ExactSupply(tmpl, values) ==
    /\ values /= <<>>
    /\ TreeMarkerIndices(tmpl) = 1..Len(values)

(***************************************************************************)
(* Properties                                                              *)
(***************************************************************************)
\* a per-record copy has been made: the record loop has been entered
LoopEntered == newTemplate /= PyNone

\* C1: once generateYamlFiles is processing records, a failure on a record is
\* caught and counted: the call never ends with an exception, and when it
\* returns every record has been processed and the value returned is the
\* number of records written.
C1_RecordFailureIsCaught ==
    /\ LoopEntered => pc /= "failed"
    /\ pc = "done" => /\ i = Len(inputData)
                      /\ result = Cardinality(DOMAIN files)

\* C2 as stated: for a template whose markers are 1..k and a record of exactly
\* k values, after resolution every marker occurrence is replaced by its
\* value and no <<VARIANTn>> with n <= k is left in any string of the output.
C2_NoMarkerRemains ==
    pc = "write" =>
        LET tmpl == Tree0
            out == Load(heap, newTemplate)
        IN  ExactSupply(tmpl, CurrentValues) =>
                /\ AllResolved(tmpl, out, CurrentValues)
                /\ TreeMarkerIndices(out) \cap 1..Len(CurrentValues) = {}

\* C2 amended: for a template whose markers are 1..k and a record of exactly
\* k values, after resolution every marker occurrence of the template is
\* replaced by its value values[n-1] (the text put in is not scanned again);
\* no <<VARIANTn>> with n <= k is left in the output when no value is empty
\* or holds a character of the marker syntax.
C2_MarkersReplaced ==
    pc = "write" =>
        LET tmpl == Tree0
            out == Load(heap, newTemplate)
        IN  ExactSupply(tmpl, CurrentValues) =>
                /\ AllResolved(tmpl, out, CurrentValues)
                /\ CleanValues(CurrentValues) =>
                    TreeMarkerIndices(out) \cap 1..Len(CurrentValues) = {}

\* a record of two clean values has been put into a template with markers
\* 1..2 that has a string with three occurrences, one of them repeated
C2_Witness ==
    /\ pc = "write"
    /\ Len(CurrentValues) = 2
    /\ CleanValues(CurrentValues)
    /\ ExactSupply(Tree0, CurrentValues)
    /\ \E n \in 1..Len(Strings(Tree0)) :
          Cardinality(Occurrences(Strings(Tree0)[n])) = 3

\* the record supplies fewer values than the template's highest marker index
UnderSupply(tmpl, values) ==
    LET found == TreeMarkerIndices(tmpl)
    IN  found /= {} /\ Len(values) < Max(found)

\* C3: when a record supplies fewer values than the template's highest marker
\* index, resolution raises nothing, every marker with an index above the
\* number of values, or with index 0, is in the output byte for byte, and
\* the markers within the supplied range are replaced.
C3_UnderSupplyKeepsMarkers ==
    pc = "write" =>
        LET tmpl == Tree0
            ss == Strings(tmpl)
            outs == Strings(Load(heap, newTemplate))
        IN  UnderSupply(tmpl, CurrentValues) =>
                /\ exc = "none"
                /\ Len(outs) = Len(ss)
                /\ \A n \in 1..Len(ss) : \A o \in Occurrences(ss[n]) :
                      IF IndexOf(ss[n], o) \in 1..Len(CurrentValues)
                      THEN HoldsAt(ss[n], outs[n], Occurrences(ss[n]), o, CurrentValues)
                      ELSE KeptAt(ss[n], outs[n], Occurrences(ss[n]), o, CurrentValues)

\* one value has been put into a template that holds marker 0, marker 1 and
\* marker 2
C3_Witness ==
    /\ pc = "write"
    /\ UnderSupply(Tree0, CurrentValues)
    /\ {0, 1, 2} \subseteq TreeMarkerIndices(Tree0)
    /\ Len(CurrentValues) = 1

\* only strings, integers, floats, booleans and nested mappings
RECURSIVE Supported(_)
Supported(v) ==
    IF v.t = "dict" THEN \A n \in 1..Len(v.items) : Supported(v.items[n].v)
    ELSE v.t \in {"str", "int", "float", "bool"}

IsContent(line) == strip(line) /= <<>> /\ Head(strip(line)) /= "#"

ContentLines(txt) == SelectSeq(split(txt, "\n"), IsContent)

IndentOf(line) == Len(line) - Len(lstrip(line))

\* the recorded indentation levels, popped until the top is <= n
RECURSIVE PopTo(_, _)
PopTo(levels, n) ==
    IF levels[Len(levels)] > n THEN PopTo(SubSeq(levels, 1, Len(levels) - 1), n)
    ELSE levels

\* some line's indentation decreases to a width that is no recorded level
RECURSIVE BadDedentFrom(_, _)
BadDedentFrom(levels, lines) ==
    IF lines = <<>> THEN FALSE
    ELSE LET n == IndentOf(Head(lines))
             top == levels[Len(levels)]
         IN  IF n > top THEN BadDedentFrom(Append(levels, n), Tail(lines))
             ELSE IF n < top
             THEN \/ PopTo(levels, n)[Len(PopTo(levels, n))] /= n
                  \/ BadDedentFrom(PopTo(levels, n), Tail(lines))
             ELSE BadDedentFrom(levels, Tail(lines))

BadDedent(txt) == BadDedentFrom(<<0>>, ContentLines(txt))

MissingColon(txt) ==
    \E n \in 1..Len(ContentLines(txt)) : ~Contains(ContentLines(txt)[n], ":")

\* C4: for a tree the parser produced from consistently indented text over
\* strings, integers, floats, booleans and nested mappings, parsing the
\* serializer's output gives an equal tree: same keys, order, nesting, values
\* and scalar types.
C4_RoundTrip ==
    (/\ pc = "reparsed"
     /\ ~BadDedent(text) /\ ~MissingColon(text)
     /\ Supported(Load(heap, template)))
        => reparsed = Load(heap, template)

\* the number of markers the input asks for
Required ==
    requiredMarkers(inputExt, ReadRecords(inputExt, inputContent))

\* every check made before the first record passes
ChecksPass ==
    LET found == TreeMarkerIndices(Tree0)
    IN  /\ ReadRecords(inputExt, inputContent) /= <<>>
        /\ found /= {}
        /\ Max(found) >= Required

\* C5: when the input yields no record, or the template holds no marker, or
\* its highest marker index is below the required count, no output file is
\* written, and once the checks have run the run has ended with the
\* configuration error (ValueError).
C5_NoOutputBeforeChecks ==
    (template /= PyNone /\ ~ChecksPass) =>
        /\ files = NoFiles
        /\ ~LoopEntered
        /\ pc \notin {"init", "constructed", "read"} =>
              (pc = "failed" /\ exc = "ValueError")

\* the run has ended on the capacity check: records were read, markers were
\* found, and the highest index is below the widest row
C5_Witness ==
    /\ pc = "failed"
    /\ exc = "ValueError"
    /\ inputData /= <<>>
    /\ markers /= <<>>
    /\ Required = 2
    /\ files = NoFiles

\* C6: parsing fails with the format error whenever a line's indentation
\* decreases to a width that matches no recorded level, or a content line
\* has no ':'.
C6_FormatError ==
    (pc /= "init" /\ (BadDedent(text) \/ MissingColon(text))) =>
        (pc = "failed" /\ exc = "ValueError")

\* the tree with every string resolved against values
RECURSIVE ResolvedTree(_, _)
ResolvedTree(v, values) ==
    IF v.t = "str" THEN PyStr(_replaceMarkersInString(v.s, values))
    ELSE IF v.t \in {"dict", "list"}
    THEN WithChildren(v, [n \in 1..Len(Children(v)) |->
                             ResolvedTree(Children(v)[n], values)])
    ELSE v

\* the document of a record, from the template and the record alone
DocumentOf(record) ==
    _dict_to_yaml(ResolvedTree(Tree0, replacements(fileType, record)), 0)

\* C7: the document written for a record depends only on the template and on
\* that record's values, whatever records were processed before it and in
\* whatever order.
C7_Independent ==
    \A n \in DOMAIN files : files[n] = DocumentOf(inputData[n])

\* two different records have been written, in a template whose markers sit
\* in a nested mapping or in a sequence
C7_Witness ==
    /\ Cardinality(DOMAIN files) = 2
    /\ inputData[1] /= inputData[2]
    /\ files[1] /= files[2]
    /\ Len(heap) > 3

\* C8: while generateYamlFiles processes the records, and after it returns,
\* the stored template is the tree of the first parse; resolution changes
\* only the per-record copy.
C8_TemplateImmutable ==
    template /= PyNone => Load(heap, template) = Tree0

\* two records have been resolved and written from a template with a marker
\* in a sequence
C8_Witness ==
    /\ pc = "done"
    /\ success_count = 2
    /\ Tree0.items[1].v.t = "list"
    /\ files[1] /= files[2]

\* C9: after a decrease of any number of levels, a key at indentation 0 is
\* stored in the top-level mapping.
C9_DedentToTopLevel ==
    (pc /= "init" /\ exc = "none") =>
        \A n \in 1..Len(ContentLines(text)) :
            LET line == ContentLines(text)[n]
            IN  (IndentOf(line) = 0 /\ Contains(line, ":")) =>
                    HasKey(Load(heap, template),
                           strip(SubSeq(line, 1, IndexFrom(line, ":", 1) - 1)))

\* C10: marker discovery returns exactly the distinct marker indices of the
\* strings anywhere in the template tree, in mappings and in sequences, in
\* ascending order, so that its last element is the highest index the
\* resolver substitutes.
C10_MarkerDiscovery ==
    template /= PyNone =>
        /\ {int(markers[n]) : n \in 1..Len(markers)} = TreeMarkerIndices(Tree0)
        /\ \A m, n \in 1..Len(markers) : m < n => int(markers[m]) < int(markers[n])

====
